---- MODULE Spec2Model ----
(***************************************************************************)
(* y-socket.io server: the persistence transaction queue of                *)
(* GenericPersistenceAdaptor and the document lifecycle of YSocketIO       *)
(* (src/src/server/y-socket-io.ts).                                        *)
(*                                                                         *)
(* A Y.Doc is modelled by the set of items it holds, an update by the set  *)
(* of items it carries; applying an update is set union.                   *)
(***************************************************************************)
EXTENDS Integers, Sequences, FiniteSets, TLC

\* ------------------------------------------------------------------ bounds
MaxOps == 3      \* operations submitted by the callers of SpecQ
MaxTrim == 2     \* largest trimSize the adaptor is constructed with
MaxSockets == 2  \* connections that arrive at the server
MaxFail == 1     \* storage calls that fail

Names == {"a", "b"}
Items == {1, 2}
Sockets == 1..MaxSockets

\* logs a storage can hold when the adaptor is constructed over it
StoredLogs == {<<>>, <<{1}, {2}>>}

VARIABLES
    tr,         \* GenericPersistenceAdaptor.tr: id of the last promise of the chain (0: Promise.resolve())
    ops,        \* every promise created by _transact, in submission order
    db,         \* GenericPersistence: docName -> ordered list of stored updates
    trimSize,   \* GenericPersistenceAdaptor.trimSize
    clean,      \* history: the log had the failed operations never been submitted
    ideal,      \* history: the log had the failed operations succeeded
    persistence,    \* YSocketIO.persistence != null
    authenticate,   \* configuration.authenticate != null
    documents,  \* YSocketIO._documents: room name -> Document (0: no entry)
    docs,       \* the Document instances, named by the socket whose initDocument constructed them
    sock,       \* the sockets: where their middleware, connection handler and disconnect handler stand,
                \* and the Y.Doc of the client at the other end (cdoc)
    nsp,        \* per dynamic namespace /yjs|name, the connected sockets in joining order
    emitted,    \* history: the events emitted by YSocketIO, <<event, socket, Document>>
    orderly     \* history: per room, whether its closes have so far come one handler at a time, no arrival after the first

adaptor == <<tr, ops, db, trimSize, clean, ideal>>

server == <<persistence, authenticate, documents, docs, sock, nsp, emitted, orderly>>

vars == <<adaptor, server>>

\* ------------------------------------------------------------- yjs (opaque)
\* Y.applyUpdate(ydoc, update)
applyUpdate(ydoc, update) == ydoc \cup update

\* Y.encodeStateAsUpdate(ydoc, stateVector): what ydoc holds and the vector lacks
encodeStateAsUpdate(ydoc, sv) == ydoc \ sv

\* new Y.Doc(); updates.forEach(update => Y.applyUpdate(ydoc, update))
RECURSIVE Replay(_, _)
Replay(ydoc, updates) ==
    IF updates = <<>> THEN ydoc
    ELSE Replay(applyUpdate(ydoc, Head(updates)), Tail(updates))

\* ------------------------------------------------- GenericPersistence (db)
\* db.getUpdates(docName)
dbGetUpdates(d, docName) == d[docName]

\* db.storeUpdate(docName, update): one more entry at the end of the log
dbStoreUpdate(d, docName, update) == [d EXCEPT ![docName] = Append(@, update)]

\* db.flushDocument(docName, state): the complete single state replaces the log
dbFlushDocument(d, docName, state) == [d EXCEPT ![docName] = <<state>>]

\* ------------------------------------------- GenericPersistenceAdaptor
\* _transact: `await currTr` lets the body start once the previous promise has settled
CanStart_noAwait(k) == TRUE

CanStart(k) == IF ops[k].prev = 0 THEN TRUE ELSE ops[ops[k].prev].st = "settled"

\* _transact: catch (err) { console.warn(...) }; return res  (res is still null)
SettleFail_rethrow(o, stage) == [o EXCEPT !.st = "rejected", !.res = "null", !.fail = stage]

SettleFail(o, stage) == [o EXCEPT !.st = "settled", !.res = "null", !.fail = stage]

\* getYDoc: if (updates.length > trimSize)
NeedsTrim_geq(n, trim) == n >= trim

NeedsTrim(n, trim) == n > trim

\* getYDoc: the state handed to db.flushDocument, Y.encodeStateAsUpdate(ydoc)
Snapshot_fresh(ydoc) == encodeStateAsUpdate({}, {})

Snapshot(ydoc) == encodeStateAsUpdate(ydoc, {})

\* getYDoc: if (dbdoc) { return dbdoc }; return new Y.Doc()
\* the document the call resolves to, o its settled promise of _transact
Resolved_replayed(o) == o.ydoc

Resolved(o) == IF o.res = "ydoc" THEN o.ydoc ELSE {}

\* the function handed to _transact, and the promise _transact is about to create for it
NewOp(kind, docName, update, trim, flush, owner) ==
    [kind |-> kind, name |-> docName, upd |-> update, trim |-> trim, flush |-> flush,
     owner |-> owner, prev |-> 0, st |-> "queued", res |-> "pending", fail |-> "",
     ydoc |-> {}, read |-> <<>>, didRead |-> FALSE, wrote |-> <<>>, runs |-> 0,
     cleanDoc |-> {}, idealDoc |-> {}]

\* _transact(f): const currTr = this.tr; this.tr = (async () => { await currTr; ... })()
\* q is the chain, [ops, tr]; the result is the chain with the new promise at its end
Transact(q, o) ==
    [ops |-> Append(q.ops, [o EXCEPT !.prev = q.tr]), tr |-> Len(q.ops) + 1]

\* getYDoc(docName, trimSize = this.trimSize)
getYDoc(q, docName, owner) == Transact(q, NewOp("get", docName, {}, trimSize, FALSE, owner))

\* flushDocument(docName): await this.getYDoc(docName, 0)
flushDocument_defaultTrim(q, docName, owner) ==
    Transact(q, NewOp("get", docName, {}, trimSize, TRUE, owner))

flushDocument(q, docName, owner) == Transact(q, NewOp("get", docName, {}, 0, TRUE, owner))

\* storeUpdate(docName, update)
storeUpdate(q, docName, update, owner) ==
    Transact(q, NewOp("store", docName, update, 0, FALSE, owner))

\* the chain as it stands
Chain == [ops |-> ops, tr |-> tr]

\* a settled promise whose result its awaiter has taken: nothing refers to it any more
Taken == [NewOp("none", "a", {}, 0, FALSE, 0) EXCEPT !.st = "settled", !.res = "void", !.runs = 1]

\* the promises at the head of q that have been taken
RECURSIVE Lead(_)
Lead(q) == IF q = <<>> THEN 0 ELSE IF Head(q) # Taken THEN 0 ELSE 1 + Lead(Tail(q))

Shift(i, d) == IF i > d THEN i - d ELSE 0

\* c is [ops, tr, sock, emitted]: promise k is taken, and the promises that
\* nothing refers to any more leave the chain (a reference to one that left is
\* 0, the settled promise)
Take(c, k) ==
    LET taken == [c.ops EXCEPT ![k] = Taken]
        d == Lead(taken)
    IN  [c EXCEPT !.ops = [i \in 1..(Len(taken) - d) |->
                              [taken[i + d] EXCEPT !.prev = Shift(@, d)]],
                  !.tr = Shift(c.tr, d),
                  !.sock = [t \in Sockets |-> [c.sock[t] EXCEPT !.op = Shift(@, d)]]]

\* c with its chain replaced by q
WithChain(c, q) == [c EXCEPT !.ops = q.ops, !.tr = q.tr]

\* YSocketIO and the chain as they stand
Now == [ops |-> ops, tr |-> tr, sock |-> sock, emitted |-> emitted]

\* YSocketIO and the chain become c
Become(c) == ops' = c.ops /\ tr' = c.tr /\ sock' = c.sock /\ emitted' = c.emitted

\* the chain becomes q
Submit(q) == ops' = q.ops /\ tr' = q.tr

\* what an operation does to a log when all of its storage calls succeed (history only)
Effect(o, d) ==
    IF o.kind = "store" THEN dbStoreUpdate(d, o.name, o.upd)
    ELSE IF Len(d[o.name]) > o.trim
         THEN dbFlushDocument(d, o.name, Replay({}, d[o.name]))
         ELSE d

\* the history variables when operation o settles
Settled(o, ok) ==
    /\ clean' = IF ok THEN Effect(o, clean) ELSE clean
    /\ ideal' = Effect(o, ideal)

WithRefs(o) ==
    [o EXCEPT !.cleanDoc = Replay({}, clean[o.name]), !.idealDoc = Replay({}, ideal[o.name])]

\* the storage may fail once more
MayFail == Cardinality({k \in DOMAIN ops : ops[k].fail # ""}) < MaxFail

\* the body of the async function of _transact starts: await currTr has returned and f(this.db) is called
TrStart ==
    \E k \in DOMAIN ops :
        /\ ops[k].st = "queued"
        /\ CanStart(k)
        /\ ops' = [ops EXCEPT ![k].st = IF ops[k].kind = "store" THEN "storeUpdate" ELSE "getUpdates",
                              ![k].runs = @ + 1]
        /\ UNCHANGED <<tr, db, trimSize, clean, ideal>>
        /\ UNCHANGED server

\* getYDoc: db.getUpdates settles; the log is replayed, and written back when it is too long
GetUpdatesOk ==
    \E k \in DOMAIN ops :
        /\ ops[k].st = "getUpdates"
        /\ LET updates == dbGetUpdates(db, ops[k].name)
               ydoc == Replay({}, updates)
               o == [WithRefs(ops[k]) EXCEPT !.read = updates, !.didRead = TRUE, !.ydoc = ydoc]
           IN IF NeedsTrim(Len(updates), ops[k].trim)
              THEN /\ ops' = [ops EXCEPT ![k] = [o EXCEPT !.st = "flushDocument",
                                                         !.wrote = <<Snapshot(ydoc)>>]]
                   /\ UNCHANGED <<clean, ideal>>
              ELSE /\ ops' = [ops EXCEPT ![k] = [o EXCEPT !.st = "settled", !.res = "ydoc"]]
                   /\ Settled(ops[k], TRUE)
        /\ UNCHANGED <<tr, db, trimSize>>
        /\ UNCHANGED server

GetUpdatesFail ==
    \E k \in DOMAIN ops :
        /\ ops[k].st = "getUpdates"
        /\ MayFail
        /\ ops' = [ops EXCEPT ![k] = SettleFail(WithRefs(ops[k]), "getUpdates")]
        /\ Settled(ops[k], FALSE)
        /\ UNCHANGED <<tr, db, trimSize>>
        /\ UNCHANGED server

\* getYDoc: db.flushDocument(docName, Y.encodeStateAsUpdate(ydoc)) settles
FlushDocumentOk ==
    \E k \in DOMAIN ops :
        /\ ops[k].st = "flushDocument"
        /\ db' = dbFlushDocument(db, ops[k].name, ops[k].wrote[1])
        /\ ops' = [ops EXCEPT ![k].st = "settled", ![k].res = "ydoc"]
        /\ Settled(ops[k], TRUE)
        /\ UNCHANGED <<tr, trimSize>>
        /\ UNCHANGED server

FlushDocumentFail ==
    \E k \in DOMAIN ops :
        /\ ops[k].st = "flushDocument"
        /\ MayFail
        /\ ops' = [ops EXCEPT ![k] = SettleFail(ops[k], "flushDocument")]
        /\ Settled(ops[k], FALSE)
        /\ UNCHANGED <<tr, db, trimSize>>
        /\ UNCHANGED server

\* storeUpdate: db.storeUpdate(docName, update) settles
StoreUpdateOk ==
    \E k \in DOMAIN ops :
        /\ ops[k].st = "storeUpdate"
        /\ db' = dbStoreUpdate(db, ops[k].name, ops[k].upd)
        /\ ops' = [ops EXCEPT ![k] = [WithRefs(ops[k]) EXCEPT !.st = "settled", !.res = "void"]]
        /\ Settled(ops[k], TRUE)
        /\ UNCHANGED <<tr, trimSize>>
        /\ UNCHANGED server

StoreUpdateFail ==
    \E k \in DOMAIN ops :
        /\ ops[k].st = "storeUpdate"
        /\ MayFail
        /\ ops' = [ops EXCEPT ![k] = SettleFail(WithRefs(ops[k]), "storeUpdate")]
        /\ Settled(ops[k], FALSE)
        /\ UNCHANGED <<tr, db, trimSize>>
        /\ UNCHANGED server

\* the YSocketIO instance after construction, before any connection
InitServer ==
    /\ documents = [n \in Names |-> 0]
    /\ docs = [d \in Sockets |-> [created |-> FALSE, state |-> {}, bound |-> FALSE, destroyed |-> 0]]
    /\ sock = [s \in Sockets |->
                [pc |-> "idle", dpc |-> "none", room |-> "none", doc |-> 0, conn |-> FALSE,
                 authRes |-> "none", signal |-> "none", cnt |-> 0, op |-> 0, persisted |-> {},
                 flushed |-> FALSE, cdoc |-> {}, pushed |-> FALSE, pulled |-> FALSE]]
    /\ nsp = [n \in Names |-> <<>>]
    /\ emitted = {}
    /\ orderly = [n \in Names |-> TRUE]

\* ---------------------------------------------- SpecQ: the adaptor alone
\* callers submit any sequence of getYDoc, flushDocument and storeUpdate calls
SubmitGet ==
    /\ Len(ops) < MaxOps
    /\ \E n \in Names : Submit(getYDoc(Chain, n, 0))
    /\ UNCHANGED <<db, trimSize, clean, ideal, server>>

SubmitFlush ==
    /\ Len(ops) < MaxOps
    /\ \E n \in Names : Submit(flushDocument(Chain, n, 0))
    /\ UNCHANGED <<db, trimSize, clean, ideal, server>>

SubmitStore ==
    /\ Len(ops) < MaxOps
    /\ \E n \in Names, i \in Items : Submit(storeUpdate(Chain, n, {i}, 0))
    /\ UNCHANGED <<db, trimSize, clean, ideal, server>>

InitQ ==
    /\ tr = 0
    /\ ops = <<>>
    /\ db \in {[n \in Names |-> IF n = "a" THEN l ELSE <<>>] : l \in StoredLogs}
    /\ trimSize \in 0..MaxTrim
    /\ clean = db
    /\ ideal = db
    /\ InitServer
    /\ persistence = FALSE
    /\ authenticate = FALSE

NextQ ==
    \/ SubmitGet
    \/ SubmitFlush
    \/ SubmitStore
    \/ TrStart
    \/ GetUpdatesOk
    \/ GetUpdatesFail
    \/ FlushDocumentOk
    \/ FlushDocumentFail
    \/ StoreUpdateOk
    \/ StoreUpdateFail

SpecQ == InitQ /\ [][NextQ]_vars

\* ------------------------------------------------------------- YSocketIO
\* initialize: what the authentication middleware does with the predicate's outcome:
\* next(), next(new Error('Unauthorized')), or nothing when the awaited predicate throws
Middleware_open(res) == "next"

Middleware(res) ==
    IF res = "true" THEN "next" ELSE IF res = "false" THEN "Unauthorized" ELSE "none"

\* disconnect handler: (await socket.nsp.fetchSockets()).length === 0
NoneLeft(n) == n = 0

\* disconnect handler: `await this.persistence.writeState(doc.name, doc)` has returned
WriteStateDone_noAwait(k) == TRUE

WriteStateDone(k) == ops[k].st = "settled"

\* a handler of socket t is suspended at an await
Busy(t) == sock[t].pc \in {"getYDoc", "storeUpdate"} \/ sock[t].dpc = "writeState"

\* the promise socket t awaits has settled
Awaited(t) == IF sock[t].op = 0 THEN FALSE ELSE ops[sock[t].op].st = "settled"

\* a continuation is ready to run: transport events are taken up only once these have run
MicrotaskPending ==
    \/ \E t \in Sockets : Busy(t) /\ Awaited(t)
    \/ \E k \in DOMAIN ops : ops[k].st = "queued" /\ CanStart(k)

\* socket t is closed, n sockets remaining in its namespace. If initSocketListeners
\* has registered it, the 'disconnect' listener runs up to its first await on the
\* provider: it counts the sockets left (fetchSockets) and, when none is, emits
\* 'all-document-connections-closed' and, with persistence, calls writeState.
\* c is [ops, tr, sock, emitted] before, the result the same after
Close(c, t, n) ==
    LET listening == c.sock[t].pc = "ready"
        none == listening /\ NoneLeft(n)
        e == IF none
             THEN c.emitted \cup {<<"all-document-connections-closed", t, c.sock[t].doc>>}
             ELSE c.emitted
    IN  IF none /\ persistence
        THEN \* writeState: await provider.flushDocument(docName)
             LET q == flushDocument([ops |-> c.ops, tr |-> c.tr], c.sock[t].room, t)
             IN  [ops |-> q.ops, tr |-> q.tr, emitted |-> e,
                  sock |-> [c.sock EXCEPT ![t].conn = FALSE, ![t].cnt = n,
                                          ![t].dpc = "writeState", ![t].op = q.tr]]
        ELSE [ops |-> c.ops, tr |-> c.tr, emitted |-> e,
              sock |-> [c.sock EXCEPT ![t].conn = FALSE, ![t].cnt = n,
                                      ![t].dpc = IF listening THEN "done" ELSE @]]

\* namespace.disconnectSockets(): the sockets of q are closed in joining order
RECURSIVE CloseAll(_, _)
CloseAll(c, q) ==
    IF q = <<>> THEN c ELSE CloseAll(Close(c, Head(q), Len(q) - 1), Tail(q))

Remove(q, t) == SelectSeq(q, LAMBDA x : x # t)

\* Document.destroy, after the onDestroy callback: this.namespace.disconnectSockets()
DocumentDestroy(c, r) == CloseAll(c, nsp[r])

\* initDocument: `if (this.persistence != null) await this.persistence.bindState(name, doc)`
BindsState_never == FALSE

BindsState == persistence

\* dynamicNamespace.on('connection'): the socket joins its namespace and the
\* connection handler runs: to its end when initDocument awaits nothing, else up
\* to the first await of bindState
Connection(s, r, base) ==
    LET joined == [base EXCEPT ![s].room = r, ![s].conn = TRUE]
    IN  /\ nsp' = [nsp EXCEPT ![r] = Append(@, s)]
        /\ orderly' = [orderly EXCEPT ![r] =
                          @ /\ \A t \in Sockets \ {s} :
                                  (sock[t].room = r /\ sock[t].pc \in {"getYDoc", "storeUpdate", "ready"})
                                      => sock[t].conn]
        /\ IF documents[r] # 0
           THEN \* this._documents.get(name): the entry exists, initDocument returns it
                /\ sock' = [joined EXCEPT ![s].doc = documents[r], ![s].pc = "ready"]
                /\ emitted' = emitted \cup {<<"connection", s, documents[r]>>}
                /\ UNCHANGED <<documents, docs, tr, ops>>
           ELSE \* new Document(...), and no entry: bind, then set
                /\ docs' = [docs EXCEPT ![s].created = TRUE]
                /\ IF BindsState
                   THEN \* bindState: await provider.getYDoc(docName)
                        /\ Submit(getYDoc(Chain, r, s))
                        /\ sock' = [joined EXCEPT ![s].doc = s, ![s].pc = "getYDoc",
                                                  ![s].op = Len(ops) + 1]
                        /\ UNCHANGED <<documents, emitted>>
                   ELSE /\ documents' = [documents EXCEPT ![r] = s]
                        /\ emitted' = emitted \cup {<<"document-loaded", s, s>>,
                                                     <<"connection", s, s>>}
                        /\ sock' = [joined EXCEPT ![s].doc = s, ![s].pc = "ready"]
                        /\ UNCHANGED <<tr, ops>>

\* a client connects to the namespace /yjs|r: the middleware of initialize runs
Arrive ==
    \E s \in Sockets, r \in Names :
        /\ ~MicrotaskPending
        /\ sock[s].pc = "idle"
        /\ \A t \in 1..(s - 1) : sock[t].pc # "idle"
        /\ s = 1 => r = "a"
        /\ IF authenticate
           THEN /\ sock' = [sock EXCEPT ![s].pc = "authenticate", ![s].room = r]
                /\ UNCHANGED <<documents, docs, nsp, emitted, orderly, tr, ops>>
           ELSE Connection(s, r, sock)
        /\ UNCHANGED <<persistence, authenticate, db, trimSize, clean, ideal>>

\* middleware: `await this.configuration.authenticate(socket.handshake)` settles
AuthReturn ==
    \E s \in Sockets, res \in {"true", "false", "throw"} :
        /\ ~MicrotaskPending
        /\ sock[s].pc = "authenticate"
        /\ LET m == Middleware(res)
               base == [sock EXCEPT ![s].authRes = res]
           IN IF m = "next"
              THEN Connection(s, sock[s].room, base)
              ELSE /\ sock' = [base EXCEPT ![s].pc = IF m = "none" THEN "hung" ELSE "refused",
                                           ![s].signal = m]
                   /\ UNCHANGED <<documents, docs, nsp, emitted, orderly, tr, ops>>
        /\ UNCHANGED <<persistence, authenticate, db, trimSize, clean, ideal>>

\* bindState: provider.getYDoc has returned; await provider.storeUpdate(docName, newUpdates)
BindGetYDoc ==
    \E s \in Sockets :
        /\ sock[s].pc = "getYDoc"
        /\ Awaited(s)
        /\ LET o == ops[sock[s].op]
               persistedYdoc == Resolved(o)
               newUpdates == encodeStateAsUpdate(docs[sock[s].doc].state, {})
               c == Take(Now, sock[s].op)
               q == storeUpdate([ops |-> c.ops, tr |-> c.tr], sock[s].room, newUpdates, s)
           IN Become([WithChain(c, q) EXCEPT !.sock[s].pc = "storeUpdate",
                                             !.sock[s].op = q.tr,
                                             !.sock[s].persisted = persistedYdoc])
        /\ UNCHANGED <<db, trimSize, clean, ideal>>
        /\ UNCHANGED <<persistence, authenticate, documents, docs, nsp, orderly>>

\* bindState: provider.storeUpdate has returned; the persisted state is applied
\* and the 'update' listener registered. initDocument then sets the entry and
\* emits 'document-loaded'; the connection handler emits 'connection', registers
\* the listeners of the socket and starts the synchronization
BindStoreUpdate ==
    \E s \in Sockets :
        /\ sock[s].pc = "storeUpdate"
        /\ Awaited(s)
        /\ docs' = [docs EXCEPT ![sock[s].doc].state =
                                    applyUpdate(@, encodeStateAsUpdate(sock[s].persisted, {})),
                                ![sock[s].doc].bound = TRUE]
        /\ documents' = [documents EXCEPT ![sock[s].room] = sock[s].doc]
        /\ Become([Take(Now, sock[s].op) EXCEPT
                      !.sock[s].pc = "ready",
                      !.emitted = @ \cup {<<"document-loaded", s, sock[s].doc>>,
                                          <<"connection", s, sock[s].doc>>}])
        /\ UNCHANGED <<db, trimSize, clean, ideal>>
        /\ UNCHANGED <<persistence, authenticate, nsp, orderly>>

\* the client of a connected socket goes away: the socket leaves its namespace
\* and 'disconnect' fires
Disconnect ==
    \E s \in Sockets :
        /\ ~MicrotaskPending
        /\ sock[s].conn
        /\ LET r == sock[s].room
               rest == Remove(nsp[r], s)
               c == Close(Now, s, Len(rest))
           IN /\ nsp' = [nsp EXCEPT ![r] = rest]
              /\ orderly' = [orderly EXCEPT ![r] =
                                @ /\ \A t \in Sockets : sock[t].room = r => ~Busy(t)]
              /\ Become(c)
        /\ UNCHANGED <<db, trimSize, clean, ideal>>
        /\ UNCHANGED <<persistence, authenticate, documents, docs>>

\* disconnect handler: writeState has returned and doc.destroy() runs: the
\* onDestroy callback of initDocument deletes the entry and emits
\* 'document-destroy'; Document.destroy then closes the connections still in the
\* namespace (those that joined while writeState was pending) and destroys the Y.Doc
Destroy ==
    \E s \in Sockets :
        /\ sock[s].dpc = "writeState"
        /\ WriteStateDone(sock[s].op)
        /\ LET r == sock[s].room
               flushed == ops[sock[s].op].st = "settled"
               c == [Take(Now, sock[s].op) EXCEPT
                        !.sock[s].dpc = "done",
                        !.sock[s].flushed = flushed,
                        !.emitted = @ \cup {<<"document-destroy", s, sock[s].doc>>}]
           IN /\ documents' = [documents EXCEPT ![r] = 0]
              /\ docs' = [docs EXCEPT ![sock[s].doc].destroyed = @ + 1]
              /\ nsp' = [nsp EXCEPT ![r] = <<>>]
              /\ Become(DocumentDestroy(c, r))
        /\ UNCHANGED <<db, trimSize, clean, ideal>>
        /\ UNCHANGED <<persistence, authenticate, orderly>>

\* disconnect handler, for a PersistenceProvider whose flushDocument rejects:
\* `await this.persistence.writeState(doc.name, doc)` throws and the handler
\* ends there, its promise rejected
WriteStateRejects ==
    \E s \in Sockets :
        /\ sock[s].dpc = "writeState"
        /\ Become([Take(Now, sock[s].op) EXCEPT !.sock[s].dpc = "thrown"])
        /\ UNCHANGED <<db, trimSize, clean, ideal>>
        /\ UNCHANGED <<persistence, authenticate, documents, docs, nsp, orderly>>

\* ------------------------------------------------- synchronization
\* the sockets a namespace emit of room r reaches
InNamespace(t, r) == \E i \in DOMAIN nsp[r] : nsp[r][i] = t

\* Document d of room r has applied update u and fires 'update': the Document
\* sends 'sync-update' to the sockets of its namespace, whose clients apply it,
\* and the listener bindState registered stores the update. base is sock with
\* the changes of the acting socket
DocumentUpdate(d, r, u, base) ==
    /\ docs' = [docs EXCEPT ![d].state = applyUpdate(@, u)]
    /\ sock' = [t \in Sockets |->
                  IF u # {} /\ InNamespace(t, r)
                  THEN [base[t] EXCEPT !.cdoc = applyUpdate(@, u)]
                  ELSE base[t]]
    /\ IF u # {} /\ persistence /\ docs[d].bound
       THEN Submit(storeUpdate(Chain, r, u, 0))
       ELSE UNCHANGED <<tr, ops>>

\* the next item a client produces: the smallest no client has produced yet
Fresh == LET unused == Items \ UNION {sock[t].cdoc : t \in Sockets}
         IN  {i \in unused : \A j \in unused : i <= j}

\* connection handler: initSyncListeners, initAwarenessListeners and
\* initSocketListeners have run for socket t, after `await this.initDocument(...)`
Listening_early(t) == sock[t].pc \in {"getYDoc", "storeUpdate", "ready"}

Listening(t) == sock[t].pc = "ready"

\* the client of socket s changes its document and emits 'sync-update'; the
\* listener of initSyncListeners applies the update
SyncUpdate ==
    \E s \in Sockets, i \in Fresh :
        /\ ~MicrotaskPending
        /\ sock[s].conn /\ Listening(s)
        /\ DocumentUpdate(sock[s].doc, sock[s].room, {i},
                          [sock EXCEPT ![s].cdoc = applyUpdate(@, {i})])
        /\ UNCHANGED <<db, trimSize, clean, ideal>>
        /\ UNCHANGED <<persistence, authenticate, documents, nsp, emitted, orderly>>

\* the same while the connection handler still awaits initDocument: no
\* listener is registered yet and the message is dropped
SyncUpdateUnheard ==
    \E s \in Sockets, i \in Fresh :
        /\ ~MicrotaskPending
        /\ sock[s].conn /\ ~Listening(s)
        /\ sock' = [sock EXCEPT ![s].cdoc = applyUpdate(@, {i})]
        /\ UNCHANGED adaptor
        /\ UNCHANGED <<persistence, authenticate, documents, docs, nsp, emitted, orderly>>

\* startSynchronization: the client acknowledges the server's 'sync-step-1' with
\* what the state vector lacks, and the callback applies it to the Document
SyncStep2 ==
    \E s \in Sockets :
        /\ ~MicrotaskPending
        /\ sock[s].conn /\ Listening(s) /\ ~sock[s].pushed
        /\ LET d == sock[s].doc
               update == encodeStateAsUpdate(sock[s].cdoc, docs[d].state)
           IN DocumentUpdate(d, sock[s].room, update, [sock EXCEPT ![s].pushed = TRUE])
        /\ UNCHANGED <<db, trimSize, clean, ideal>>
        /\ UNCHANGED <<persistence, authenticate, documents, nsp, emitted, orderly>>

\* initSyncListeners: the client emits 'sync-step-1' with its state vector; the
\* listener acknowledges with what the vector lacks, which the client applies
SyncStep1 ==
    \E s \in Sockets :
        /\ ~MicrotaskPending
        /\ sock[s].conn /\ Listening(s) /\ ~sock[s].pulled
        /\ LET update == encodeStateAsUpdate(docs[sock[s].doc].state, sock[s].cdoc)
           IN sock' = [sock EXCEPT ![s].cdoc = applyUpdate(@, update), ![s].pulled = TRUE]
        /\ UNCHANGED adaptor
        /\ UNCHANGED <<persistence, authenticate, documents, docs, nsp, emitted, orderly>>

\* the adaptor over an empty storage
InitAdaptor ==
    /\ tr = 0
    /\ ops = <<>>
    /\ db = [n \in Names |-> <<>>]
    /\ clean = db
    /\ ideal = db

\* new YSocketIO(io, configuration) without an authenticate callback, with or
\* without a persistenceProvider (a GenericPersistenceAdaptor)
Init ==
    /\ InitAdaptor
    /\ InitServer
    /\ authenticate = FALSE
    /\ persistence \in BOOLEAN
    /\ trimSize \in (IF persistence THEN {0, 1} ELSE {0})

\* new YSocketIO(io, configuration) with an authenticate callback
InitAuth ==
    /\ InitAdaptor
    /\ InitServer
    /\ authenticate = TRUE
    /\ persistence \in BOOLEAN
    /\ trimSize = (IF persistence THEN 1 ELSE 0)

Next ==
    \/ Arrive
    \/ BindGetYDoc
    \/ BindStoreUpdate
    \/ Disconnect
    \/ Destroy
    \/ TrStart
    \/ GetUpdatesOk
    \/ GetUpdatesFail
    \/ FlushDocumentOk
    \/ FlushDocumentFail
    \/ StoreUpdateOk
    \/ StoreUpdateFail

NextAuth ==
    \/ Arrive
    \/ AuthReturn
    \/ BindGetYDoc
    \/ BindStoreUpdate
    \/ Disconnect
    \/ Destroy
    \/ TrStart
    \/ GetUpdatesOk
    \/ GetUpdatesFail
    \/ FlushDocumentOk
    \/ FlushDocumentFail
    \/ StoreUpdateOk
    \/ StoreUpdateFail

\* the server without authentication
Spec == Init /\ [][Next]_vars

\* the server with authentication
SpecAuth == InitAuth /\ [][NextAuth]_vars

\* new YSocketIO(io, configuration), for the synchronization of connected clients
InitSync ==
    /\ InitAdaptor
    /\ InitServer
    /\ authenticate = FALSE
    /\ persistence \in BOOLEAN
    /\ trimSize = 0

NextSync ==
    \/ Arrive
    \/ BindGetYDoc
    \/ BindStoreUpdate
    \/ SyncUpdate
    \/ SyncUpdateUnheard
    \/ SyncStep1
    \/ SyncStep2
    \/ TrStart
    \/ GetUpdatesOk
    \/ FlushDocumentOk
    \/ StoreUpdateOk

\* the server and the clients that stay connected, over a storage that does not fail
SpecSync == InitSync /\ [][NextSync]_vars

\* new YSocketIO(io, configuration) with a persistenceProvider whose
\* flushDocument may reject
InitReject ==
    /\ InitAdaptor
    /\ InitServer
    /\ authenticate = FALSE
    /\ persistence = TRUE
    /\ trimSize = 1

NextReject ==
    \/ Arrive
    \/ BindGetYDoc
    \/ BindStoreUpdate
    \/ Disconnect
    \/ Destroy
    \/ WriteStateRejects
    \/ TrStart
    \/ GetUpdatesOk
    \/ GetUpdatesFail
    \/ FlushDocumentOk
    \/ FlushDocumentFail
    \/ StoreUpdateOk
    \/ StoreUpdateFail

\* the server over any PersistenceProvider
SpecReject == InitReject /\ [][NextReject]_vars

\* new YSocketIO(io, configuration) with a persistenceProvider, for Documents
\* that are changed, destroyed and loaded again
InitHydrate ==
    /\ InitAdaptor
    /\ InitServer
    /\ authenticate = FALSE
    /\ persistence = TRUE
    /\ trimSize = 1

NextHydrate ==
    \/ Arrive
    \/ BindGetYDoc
    \/ BindStoreUpdate
    \/ SyncUpdate
    \/ Disconnect
    \/ Destroy
    \/ TrStart
    \/ GetUpdatesOk
    \/ GetUpdatesFail
    \/ FlushDocumentOk
    \/ StoreUpdateOk

\* the server with a persistence provider whose storage may fail to read
SpecHydrate == InitHydrate /\ [][NextHydrate]_vars

\* ------------------------------------- SpecStall: a storage that may stall
\* a call on the storage that never settles: the body of its operation stays
\* at its await for ever
Stalled(k) == ops[k].st = "stalled"

Stall ==
    \E k \in DOMAIN ops :
        /\ ops[k].st \in {"getUpdates", "flushDocument", "storeUpdate"}
        /\ ops' = [ops EXCEPT ![k].st = "stalled"]
        /\ UNCHANGED <<tr, db, trimSize, clean, ideal>>
        /\ UNCHANGED server

InitStall ==
    /\ InitAdaptor
    /\ InitServer
    /\ trimSize = 1
    /\ persistence = FALSE
    /\ authenticate = FALSE

NextStall ==
    \/ SubmitGet
    \/ SubmitFlush
    \/ SubmitStore
    \/ Stall
    \/ TrStart
    \/ GetUpdatesOk
    \/ FlushDocumentOk
    \/ StoreUpdateOk

\* the event loop runs every continuation that is ready, and a storage call
\* that does not stall settles
SpecStall ==
    /\ InitStall /\ [][NextStall]_vars
    /\ WF_vars(TrStart)
    /\ WF_vars(GetUpdatesOk)
    /\ WF_vars(FlushDocumentOk)
    /\ WF_vars(StoreUpdateOk)

\* ------------------------------------------------------- claims on SpecQ
Running(k) == ops[k].st \in {"getUpdates", "flushDocument", "storeUpdate"}

Failed(k) == ops[k].fail # ""

IsLoad(k) == ops[k].kind = "get" /\ ~ops[k].flush

IsFlush(k) == ops[k].kind = "get" /\ ops[k].flush

\* the merge of all entries of a list of updates
MergeAll(updates) == UNION {updates[i] : i \in DOMAIN updates}

\* C1: the bodies of all operations, of whatever room, run one at a time and in
\* submission order: a body has started only if every operation submitted
\* before it has settled.
C1_GlobalFifo ==
    \A k \in DOMAIN ops :
        ops[k].st # "queued" => \A j \in 1..(k - 1) : ops[j].st = "settled"

\* three operations, the middle one of another room: the first has settled, the
\* second runs, the third waits
C1_Witness ==
    /\ Len(ops) >= 3
    /\ ops[1].st = "settled" /\ Running(2) /\ ops[3].st = "queued"
    /\ ops[1].name # ops[2].name /\ ops[3].name # ops[2].name

\* C2 as stated: an operation that completes after a failed one returns, and
\* writes, what it would have had the failed operation not failed.
C2_AsIfNotFailed ==
    \A k \in DOMAIN ops :
        (ops[k].st = "settled" /\ ~Failed(k) /\ ops[k].kind = "get")
            => /\ ops[k].ydoc = ops[k].idealDoc
               /\ ops[k].wrote # <<>> => ops[k].wrote = <<ops[k].idealDoc>>

\* C2 (amended): a failure is caught at the queue boundary (the operation settles
\* with a null result after running once), the next operation may start, and
\* every later operation returns, and writes, what it would have had the
\* failed operation never been submitted.
C2_FailureIsolated ==
    /\ \A k \in DOMAIN ops :
        Failed(k) => /\ ops[k].st = "settled" /\ ops[k].res = "null" /\ ops[k].runs = 1
                     /\ k < Len(ops) => CanStart(k + 1)
    /\ \A k \in DOMAIN ops :
        (ops[k].st = "settled" /\ ~Failed(k) /\ ops[k].kind = "get")
            => /\ ops[k].res = "ydoc" /\ ops[k].ydoc = ops[k].cleanDoc
               /\ ops[k].wrote # <<>> => ops[k].wrote = <<ops[k].cleanDoc>>
    /\ \A k \in DOMAIN ops : ops[k].runs <= 1
    /\ db = clean

\* a store fails, and a later load of the same room completes without its update
C2_Witness ==
    \E k, j \in DOMAIN ops :
        /\ k < j /\ ops[k].kind = "store" /\ Failed(k)
        /\ ops[j].name = ops[k].name /\ IsLoad(j) /\ ops[j].st = "settled" /\ ~Failed(j)
        /\ ops[j].ydoc # ops[j].idealDoc

\* C8: a load writes the consolidated state exactly when it read more than
\* trimSize entries, at most once, and what it writes is the merge of all the
\* entries it read.
C8_TrimIffLonger ==
    \A k \in DOMAIN ops :
        (IsLoad(k) /\ ops[k].didRead)
            => /\ Len(ops[k].wrote) = (IF Len(ops[k].read) > trimSize THEN 1 ELSE 0)
               /\ ops[k].wrote # <<>> => ops[k].wrote[1] = MergeAll(ops[k].read)

\* one load read exactly trimSize entries and wrote nothing, another read
\* trimSize + 1 entries and wrote the snapshot
C8_Witness ==
    /\ trimSize >= 1
    /\ \E k, j \in DOMAIN ops :
        /\ IsLoad(k) /\ ops[k].st = "settled" /\ Len(ops[k].read) = trimSize /\ ops[k].wrote = <<>>
        /\ IsLoad(j) /\ ops[j].st = "settled" /\ Len(ops[j].read) = trimSize + 1
        /\ Len(ops[j].wrote) = 1

\* C9 as stated: every flushDocument that read the log writes one snapshot.
C9_FlushAlwaysWrites ==
    \A k \in DOMAIN ops :
        (IsFlush(k) /\ ops[k].didRead) => Len(ops[k].wrote) = 1

\* C9 (amended): a flushDocument that read the log writes one snapshot, the
\* merge of the entries read, when the log holds at least one entry, whatever
\* trimSize is; on an empty log it writes nothing.
C9_FlushWritesNonEmpty ==
    \A k \in DOMAIN ops :
        (IsFlush(k) /\ ops[k].didRead)
            => /\ Len(ops[k].wrote) = (IF ops[k].read # <<>> THEN 1 ELSE 0)
               /\ ops[k].wrote # <<>> => ops[k].wrote[1] = MergeAll(ops[k].read)

\* a flush of a log no longer than trimSize (here a single entry) writes the snapshot
C9_Witness ==
    \E k \in DOMAIN ops :
        /\ IsFlush(k) /\ ops[k].st = "settled" /\ ~Failed(k)
        /\ Len(ops[k].read) = 1 /\ trimSize >= 1 /\ Len(ops[k].wrote) = 1

\* load j follows the consolidating load i of the same room with no store of
\* that room submitted in between
LoadAfterTrim(i, j) ==
    /\ i < j /\ IsLoad(i) /\ IsLoad(j) /\ ops[i].name = ops[j].name
    /\ ops[i].st = "settled" /\ ~Failed(i) /\ ops[i].wrote # <<>>
    /\ ops[j].st = "settled" /\ ~Failed(j)
    /\ \A k \in (i + 1)..(j - 1) : ~(ops[k].kind = "store" /\ ops[k].name = ops[i].name)

Idempotent(i, j) ==
    /\ ops[j].read = ops[i].wrote
    /\ ops[j].wrote = <<>>
    /\ ops[j].ydoc = ops[i].ydoc

\* C10 as stated: a load after a consolidating load replays only the snapshot,
\* writes nothing and returns the same state.
C10_LoadIdempotent ==
    \A i, j \in DOMAIN ops : LoadAfterTrim(i, j) => Idempotent(i, j)

\* C10 (amended): the same, for an adaptor whose trimSize is at least 1.
C10_LoadIdempotentTrim ==
    trimSize >= 1 => \A i, j \in DOMAIN ops : LoadAfterTrim(i, j) => Idempotent(i, j)

C10_Witness ==
    /\ trimSize >= 1
    /\ \E i, j \in DOMAIN ops : LoadAfterTrim(i, j) /\ Len(ops[i].read) > 1 /\ ops[i].ydoc # {}

\* the updates of room n whose storeUpdate settles, successfully, in this step
StoredNow(n) ==
    UNION {ops[k].upd : k \in {j \in DOMAIN ops : /\ ops[j].kind = "store" /\ ops[j].name = n
                                                   /\ ops[j].st = "storeUpdate"
                                                   /\ ops'[j].st = "settled" /\ ops'[j].fail = ""}}

\* C11: in every step, for every room, the replay of the log after the step is
\* the replay before it merged with the updates whose storeUpdate settled in
\* the step: the replay of the log is always the merge of everything stored, and
\* no consolidation drops an update.
C11_ReplayIsMerge ==
    [][\A n \in Names : Replay({}, db'[n]) = Replay({}, db[n]) \cup StoredNow(n)]_vars

\* a load consolidated the log of a room, and a store of that room submitted
\* after it, whose update the load did not see, has settled: the log is the
\* snapshot followed by the update
C11_Witness ==
    \E j, k \in DOMAIN ops :
        /\ j < k /\ ops[j].kind = "get" /\ ops[k].kind = "store" /\ ops[j].name = ops[k].name
        /\ ops[j].st = "settled" /\ ~Failed(j) /\ ops[j].wrote # <<>>
        /\ ops[k].st = "settled" /\ ~Failed(k) /\ ~(ops[k].upd \subseteq ops[j].ydoc)
        /\ db[ops[k].name] = <<ops[j].wrote[1], ops[k].upd>>

\* C20: getYDoc never rejects. When reading the log fails, or the log is read
\* and replayed but the consolidated write fails, the call resolves, and to a
\* fresh empty document, not to the replayed state; the step in which the
\* storage call fails leaves the stored log as it was.
C20_GetYDocNeverRejects ==
    /\ [](\A k \in DOMAIN ops :
            /\ ops[k].st # "rejected"
            /\ (ops[k].kind = "get" /\ ops[k].fail # "")
                  => /\ ops[k].st = "settled"
                     /\ ops[k].fail \in {"getUpdates", "flushDocument"}
                     /\ Resolved(ops[k]) = {})
    /\ [][\A k \in DOMAIN ops :
            (ops[k].kind = "get" /\ ops[k].fail = "" /\ ops'[k].fail # "") => db' = db]_vars

\* a getYDoc that read and replayed a log holding updates and whose
\* consolidated write then failed: it has resolved, and the log is as read
C20_Witness ==
    \E k \in DOMAIN ops :
        /\ ops[k].kind = "get" /\ ~ops[k].flush
        /\ ops[k].fail = "flushDocument" /\ ops[k].st = "settled"
        /\ ops[k].ydoc # {} /\ Resolved(ops[k]) = {}
        /\ db[ops[k].name] = ops[k].read

\* ------------------------------------------- claims on Spec and SpecAuth
\* the connections of room r that initDocument has handed a Document
Members(r) == {s \in Sockets : sock[s].room = r /\ sock[s].pc = "ready"}

\* the Document instances constructed for room r and not destroyed
Instances(r) ==
    {d \in Sockets : docs[d].created /\ docs[d].destroyed = 0 /\ sock[d].room = r}

\* the socket's disconnect handler has run to its end after finding no socket left
LastClosed(s) ==
    sock[s].pc = "ready" /\ ~sock[s].conn /\ sock[s].cnt = 0 /\ sock[s].dpc = "done"

\* C3: for each room at most one Document instance exists, and every connection
\* attached to the room holds the instance the registry holds.
C3_OneDocumentPerRoom ==
    \A r \in Names :
        /\ Cardinality(Instances(r)) <= 1
        /\ \A s \in Members(r) : sock[s].conn => sock[s].doc = documents[r]

\* C4: with persistence, when the connections of a room close one at a time,
\* each disconnect handler running to its end before the next close and no
\* connection arriving after the first close, no connection's Document is
\* destroyed and the registry entry stays while a connection remains, and once
\* the last handler has run the entry is gone and the Document of every
\* connection destroyed, once.
C4_RefcountLifecycle ==
    persistence =>
        \A r \in Names :
            orderly[r] =>
                /\ (\E s \in Members(r) : sock[s].conn)
                       => /\ documents[r] # 0
                          /\ \A t \in Members(r) : docs[sock[t].doc].destroyed = 0
                /\ (/\ Members(r) # {}
                    /\ \A s \in Sockets : sock[s].room = r => (sock[s].pc = "ready" /\ ~sock[s].conn
                                                                /\ sock[s].dpc = "done"))
                       => /\ documents[r] = 0
                          /\ \A t \in Members(r) : docs[sock[t].doc].destroyed = 1

C6_UnauthorizedSignal ==
    \A s \in Sockets :
        sock[s].authRes \in {"false", "throw"}
            => /\ sock[s].signal = "Unauthorized"
               /\ ~sock[s].conn
               /\ \A r \in Names : \A i \in DOMAIN nsp[r] : nsp[r][i] # s

\* C7: a connection for which the predicate has not returned true has no
\* Document, has constructed none, is in no namespace, owns no persistence
\* operation and no event, and the registry holds nothing of its making.
C7_NoEffectBeforeAuth ==
    authenticate =>
        \A s \in Sockets :
            sock[s].authRes # "true"
                => /\ sock[s].doc = 0 /\ ~docs[s].created /\ ~sock[s].conn
                   /\ sock[s].pc \in {"idle", "authenticate", "refused", "hung"}
                   /\ \A r \in Names : documents[r] # s /\ \A i \in DOMAIN nsp[r] : nsp[r][i] # s
                   /\ \A k \in DOMAIN ops : ops[k].owner # s
                   /\ \A e \in emitted : e[2] # s

\* one connection was refused and one awaits the predicate, while the registry
\* holds the Document of a connection that was let in
C7_Witness ==
    /\ persistence
    /\ \E s, t \in Sockets :
        /\ sock[s].authRes = "true" /\ sock[s].pc = "ready" /\ documents[sock[s].room] = sock[s].doc
        /\ sock[t].pc \in {"refused", "hung"} /\ sock[t].room = sock[s].room

\* a connection that initDocument handed Document d is connected
Attached(d) == \E s \in Sockets : sock[s].doc = d /\ sock[s].pc = "ready" /\ sock[s].conn

\* C15: no step destroys a Document, or removes it from the registry, that a
\* connected connection has been handed.
C15_NoDestroyWhileAttached ==
    [][\A d \in Sockets :
          (\/ docs'[d].destroyed > docs[d].destroyed
           \/ \E r \in Names : documents[r] = d /\ documents'[r] # d)
              => ~Attached(d)]_vars

\* C16: every Document is destroyed at most once, and at most one
\* 'document-destroy' event is emitted for it.
C16_TeardownOnce ==
    \A d \in Sockets :
        /\ docs[d].destroyed <= 1
        /\ Cardinality({e \in emitted : e[1] = "document-destroy" /\ e[3] = d}) <= 1

\* every connection made to room r has disconnected, every handler of the room
\* has run to its end and every queued persistence operation has completed
Quiescent(r) ==
    /\ \E s \in Sockets : sock[s].room = r
    /\ \A s \in Sockets :
          sock[s].room = r => /\ ~sock[s].conn
                              /\ sock[s].pc = "ready"
                              /\ sock[s].dpc \in {"none", "done"}
    /\ \A k \in DOMAIN ops : ops[k].st = "settled"
    /\ ~MicrotaskPending

\* C19: with persistence, once all connections of a room have disconnected
\* and all pending handlers and queued persistence operations have completed,
\* the registry holds no Document for the room; this includes a connection
\* that disconnected while its Document was still being loaded.
C19_NoDocumentLeaked ==
    \A r \in Names : (persistence /\ Quiescent(r)) => documents[r] = 0

\* ------------------------------------------------------- claims on SpecSync
\* connection s has completed the round the server starts and the round its client starts
Synced(s) == sock[s].conn /\ sock[s].pc = "ready" /\ sock[s].pushed /\ sock[s].pulled

\* C12: two connections of a room that have both completed the two sync
\* rounds hold, with every update delivered, the same updates as each other
\* and as the room's Document.
C12_Convergence ==
    \A r \in Names : \A a, b \in Members(r) :
        (a # b /\ Synced(a) /\ Synced(b) /\ documents[r] # 0)
            => /\ sock[a].cdoc = sock[b].cdoc
               /\ sock[a].cdoc = docs[documents[r]].state

\* an inbound message of connection s has been handled: its client's
\* 'sync-step-1' was answered, or the answer to the server's 'sync-step-1' applied
Heard(s) == sock[s].pulled \/ sock[s].pushed

\* the connection handler of s has registered the listeners and sent the
\* server's 'sync-step-1' ('connection' is emitted in the same run, before them)
Started(s) == sock[s].pc = "ready" /\ <<"connection", s, sock[s].doc>> \in emitted

\* C18: an inbound message of a connection is handled only after its handler
\* has registered the listeners and sent the server's sync-step-1: no step
\* handles one for a connection whose handler has not come that far, and the
\* Document changes only through the messages of such connections.
C18_ListenersBeforeEvents ==
    /\ [](\A s \in Sockets : Heard(s) => Started(s))
    /\ [][\A s \in Sockets :
            (sock'[s].pulled # sock[s].pulled \/ sock'[s].pushed # sock[s].pushed)
                => Started(s)]_vars
    /\ [][(\E d \in Sockets : docs'[d].state # docs[d].state /\ docs'[d].bound = docs[d].bound)
            => \E s \in Sockets : Started(s) /\ sock[s].conn
                                  /\ docs'[sock[s].doc].state # docs[sock[s].doc].state]_vars

\* a connection whose client changed its document while the handler awaited
\* initDocument (the message went unheard) has since completed both rounds
C18_Witness ==
    \E s \in Sockets :
        /\ Started(s) /\ sock[s].pulled /\ sock[s].pushed
        /\ sock[s].cdoc # {} /\ docs[sock[s].doc].state = sock[s].cdoc
        /\ persistence

\* ------------------------------------------------------ claims on SpecReject
\* the disconnect handler of s found no socket left and has ended, normally or
\* by the exception of a rejected flush
LastHandled(s) ==
    sock[s].pc = "ready" /\ ~sock[s].conn /\ sock[s].cnt = 0 /\ sock[s].dpc \in {"done", "thrown"}

\* C13: once the handler of a room's last close has ended, the Document is
\* destroyed, its entry removed and 'document-destroy' emitted, also when the
\* provider's flushDocument failed.
C13_DestroyedDespiteFlushFailure ==
    \A s \in Sockets :
        LastHandled(s)
            => /\ docs[sock[s].doc].destroyed >= 1
               /\ documents[sock[s].room] # sock[s].doc
               /\ \E e \in emitted : e[1] = "document-destroy" /\ e[3] = sock[s].doc

\* ------------------------------------------------------- claims on SpecStall
\* operation k is in the chain and neither it nor an operation before it has stalled
Unblocked(k) == k \in DOMAIN ops /\ \A j \in 1..k : ~Stalled(j)

Completed(k) == IF k \in DOMAIN ops THEN ops[k].st = "settled" ELSE FALSE

\* C14 as stated: every operation other than the one whose storage call
\* stalled eventually completes.
C14_StallBlocksOnlyItself ==
    \A k \in 1..MaxOps :
        (k \in DOMAIN ops) ~> (Completed(k) \/ (k \in DOMAIN ops /\ Stalled(k)))

\* C14 (amended): an operation submitted after one whose storage call stalled,
\* of whatever room, never starts; an operation with no stalled operation
\* before it eventually completes.
C14_StallBlocksQueue ==
    /\ [](\A j, k \in DOMAIN ops : (j < k /\ Stalled(j)) => ops[k].st = "queued")
    /\ \A k \in 1..MaxOps : Unblocked(k) ~> (Completed(k) \/ ~Unblocked(k))

\* an operation has completed, the next one has stalled, and behind it waits
\* an operation of another room
C14_Witness ==
    \E j, k \in DOMAIN ops :
        /\ 1 < j /\ j < k /\ ops[1].st = "settled" /\ Stalled(j)
        /\ ops[k].name # ops[j].name /\ ops[k].st = "queued"

\* ----------------------------------------------------- claims on SpecHydrate
\* bindState has completed for Document d: the state its getYDoc returned is
\* applied and the 'update' listener registered
Hydrated(d) == docs[d].bound /\ sock[d].persisted \subseteq docs[d].state

\* C17: with persistence, a Document that is in the registry, or was passed to
\* a 'connection' or 'document-loaded' event or to the listeners of a socket,
\* has completed bindState; and the step that emits 'document-loaded' for a
\* Document is one after which it is bound and in the registry.
C17_VisibleAfterHydration ==
    /\ [](persistence =>
            /\ \A r \in Names : documents[r] # 0 => Hydrated(documents[r])
            /\ \A e \in emitted : e[1] \in {"connection", "document-loaded"} => Hydrated(e[3])
            /\ \A s \in Sockets : sock[s].pc = "ready" => Hydrated(sock[s].doc))
    /\ [][persistence =>
            \A e \in emitted' \ emitted :
                e[1] = "document-loaded"
                    => docs'[e[3]].bound /\ documents'[sock'[e[2]].room] = e[3]]_vars

\* a Document re-created for a room is in the registry with the state an
\* earlier Document of the room had stored
C17_Witness ==
    \E r \in Names :
        /\ documents[r] # 0 /\ sock[documents[r]].persisted # {}
        /\ docs[documents[r]].state # {}
        /\ <<"document-loaded", documents[r], documents[r]>> \in emitted
====
